---- MODULE Spec2Model ----
(***************************************************************************)
(* A model of tools/quicktype_runner.js: the command-line entry point,     *)
(* main(), generate(), the reference resolver                              *)
(* FetchingJSONSchemaStore.fetch() and the pre-processor                   *)
(* appendDeprecatedDescription().                                          *)
(*                                                                         *)
(* Two specifications are defined over the same variables:                 *)
(*   Spec     one run of the program, from the argument check to exit;     *)
(*   SpecPre  the pre-processor applied to every schema text in a bounded  *)
(*            set.                                                         *)
(*                                                                         *)
(* What lies outside the file is environment: the contents of the file     *)
(* system, the outcome of a network request and the behaviour of the       *)
(* quicktype library are inputs drawn with \E.                             *)
(***************************************************************************)
EXTENDS Naturals, Sequences, FiniteSets, TLC

VARIABLES
    pc,        \* position of the run
    argc,      \* process.argv.slice(2).length
    outPath,   \* argv[1], "" when absent
    exitCode,  \* the status given to process.exit: {} while running, {n} after
    stdout,    \* texts printed with console.log
    stderr,    \* messages printed with console.error
    inputRead, \* fs.readFileSync(inPath) has been called
    source,    \* the pre-processed top-level schema handed to quicktype
    nfetch,    \* number of calls of FetchingJSONSchemaStore.fetch so far
    call,      \* the last call of fetch: its inputs, the steps it tried, its result
    content,   \* value returned by generate()
    err,       \* the error that rejected main(), "none" otherwise
    outFile,   \* the file at path.resolve(workspace, outPath)
    schema,    \* SpecPre: argument of appendDeprecatedDescription
    result,    \* SpecPre: what appendDeprecatedDescription returned
    ppc        \* SpecPre: position

vars == <<pc, argc, outPath, exitCode, stdout, stderr, inputRead, source,
          nfetch, call, content, err, outFile, schema, result, ppc>>

mainVars == <<pc, argc, outPath, exitCode, stdout, stderr, inputRead, source,
              nfetch, call, content, err, outFile>>

preVars == <<schema, result, ppc>>

----------------------------------------------------------------------------
(* Bounds *)

MaxArgs == 4       \* argument counts 0..MaxArgs
MaxFetches == 2    \* calls of fetch in one run
MaxMembers == 2    \* members of "properties" in a schema text of SpecPre

----------------------------------------------------------------------------
(* JSON values: <<typeof, text>>.  Undef is a key that is not present.      *)

Undef == <<"undefined", "">>
JTrue == <<"boolean", "true">>
JFalse == <<"boolean", "false">>
JNum1 == <<"number", "1">>
Str(s) == <<"string", s>>

TypeOf(v) == v[1]

\* JavaScript truthiness, as tested by `!deprecated`.
Truthy(v) ==
    /\ v # Undef
    /\ v # JFalse
    /\ v # Str("")
    /\ v # <<"number", "0">>
    /\ v # <<"object", "null">>

\* A member of "properties": its name and the two fields the program looks at.
Entry(d, x) == [description |-> d, xdep |-> x]

Keys == {"a", "b"}
Descriptions == {Undef, Str("Old text")}
Deprecations == {Undef, JTrue, JFalse, Str(""), Str("use X instead"), JNum1}
Entries == {Entry(d, x) : d \in Descriptions, x \in Deprecations}
Members == {<<k, e>> : k \in Keys, e \in Entries}

RECURSIVE SeqsUpTo(_, _)
SeqsUpTo(S, n) ==
    IF n = 0 THEN {<<>>}
    ELSE LET shorter == SeqsUpTo(S, n - 1)
         IN  shorter \cup {Append(s, x) : s \in {t \in shorter : Len(t) = n - 1}, x \in S}

(* A schema text.  valid: JSON.parse accepts it and yields an object.  pad:
   it has leading or trailing white space.  hasProps: the object has a
   "properties" key.  members: the members of "properties" in the order of the
   text; a name may occur twice. *)
Text(v, p, h, ms) == [valid |-> v, pad |-> p, hasProps |-> h, members |-> ms]

InvalidText == Text(FALSE, FALSE, FALSE, <<>>)

\* String.prototype.trim
Trim(t) == [t EXCEPT !.pad = FALSE]

\* Object property assignment while parsing: a repeated name keeps its first
\* position and takes the last value.
Put(obj, m) ==
    IF \E i \in DOMAIN obj : obj[i][1] = m[1]
    THEN [i \in DOMAIN obj |-> IF obj[i][1] = m[1] THEN m ELSE obj[i]]
    ELSE Append(obj, m)

RECURSIVE ParseMembers(_)
ParseMembers(ms) ==
    IF ms = <<>> THEN <<>>
    ELSE Put(ParseMembers(SubSeq(ms, 1, Len(ms) - 1)), ms[Len(ms)])

\* JSON.parse of a valid text: the object, white space dropped.
JSONparse(t) == [hasProps |-> t.hasProps, props |-> ParseMembers(t.members)]

\* JSON.stringify: no white space, members in the object's order.
JSONstringify(obj) == Text(TRUE, FALSE, obj.hasProps, obj.props)

\* The value of a name in a parsed "properties" object (Undef entry if absent).
Lookup(props, k) ==
    IF \E i \in DOMAIN props : props[i][1] = k
    THEN props[CHOOSE i \in DOMAIN props : props[i][1] = k][2]
    ELSE Entry(Undef, Undef)

Names(props) == {props[i][1] : i \in DOMAIN props}

----------------------------------------------------------------------------
(* appendDeprecatedDescription *)

marker == "\n@deprecated"

\* DeprecateEntry with the space before a textual value left out.
DeprecateEntry_NoSpace(e) ==
    LET description == IF e.description = Undef THEN "" ELSE e.description[2]
        deprecated == e.xdep
    IN  IF ~Truthy(deprecated) THEN e
        ELSE [e EXCEPT !.description =
                Str(description \o marker \o
                    (IF TypeOf(deprecated) = "string" THEN deprecated[2] ELSE ""))]

\* DeprecateEntry storing the defaulted description before the test of the
\* annotation.
DeprecateEntry_StoresDefault(e) ==
    LET description == IF e.description = Undef THEN "" ELSE e.description[2]
        deprecated == e.xdep
    IN  IF ~Truthy(deprecated) THEN [e EXCEPT !.description = Str(description)]
        ELSE [e EXCEPT !.description =
                Str(description \o marker \o
                    (IF TypeOf(deprecated) = "string" THEN " " \o deprecated[2] ELSE ""))]

\* Lines 148-154: one iteration of the loop on one entry.
DeprecateEntry(e) ==
    LET description == IF e.description = Undef THEN "" ELSE e.description[2]
        deprecated == e.xdep
    IN  IF ~Truthy(deprecated) THEN e
        ELSE [e EXCEPT !.description =
                Str(description \o marker \o
                    (IF TypeOf(deprecated) = "string" THEN " " \o deprecated[2] ELSE ""))]

\* Lines 147-155: for (const key in props), from the i-th name on.
RECURSIVE DeprecateFrom(_, _)
DeprecateFrom(props, i) ==
    IF i > Len(props) THEN props
    ELSE DeprecateFrom([props EXCEPT ![i] = <<props[i][1], DeprecateEntry(props[i][2])>>], i + 1)

\* Lines 143-158.  threw: JSON.parse raised a SyntaxError.
appendDeprecatedDescription(s) ==
    IF ~s.valid THEN [threw |-> TRUE, text |-> InvalidText]
    ELSE LET parsed == JSONparse(s)
             props == DeprecateFrom(parsed.props, 1)
         IN  [threw |-> FALSE, text |-> JSONstringify([parsed EXCEPT !.props = props])]

----------------------------------------------------------------------------
(* The environment of one run *)

\* Schema texts met in a run: one JSON.parse rejects, one without and one with
\* a deprecated property.  The valid ones carry surrounding white space.
PlainText == Text(TRUE, TRUE, TRUE, <<<<"a", Entry(Str("Old text"), Undef)>>>>)
DeprText == Text(TRUE, TRUE, TRUE, <<<<"a", Entry(Undef, JTrue)>>>>)
RunTexts == {InvalidText, PlainText, DeprText}

\* What a path names: nothing, a directory (fs.existsSync is true and
\* fs.readFileSync raises) or a file with a text.
Missing == [kind |-> "missing", text |-> InvalidText]
Dir == [kind |-> "dir", text |-> InvalidText]
File(t) == [kind |-> "file", text |-> t]
FileStates == {Missing, Dir} \cup {File(t) : t \in RunTexts}

existsSync(f) == f.kind # "missing"

\* Outcome of the global fetch(address): the request is rejected; a response
\* arrives and response.text() resolves to body; a response arrives and
\* response.text() rejects.
NetReject == [outcome |-> "reject", body |-> InvalidText]
NetBadBody == [outcome |-> "badbody", body |-> InvalidText]
NetOk(t) == [outcome |-> "ok", body |-> t]
NetOutcomes == {NetReject, NetBadBody} \cup {NetOk(t) : t \in RunTexts}

\* Reference addresses, with what url.parse and path.isAbsolute make of them
\* ("" stands for null).
Addresses == {
    [href |-> "ng-cli://commands/definitions.json", protocol |-> "ng-cli:",
     hostname |-> "commands", absolute |-> FALSE],
    [href |-> "https://example.com/schema.json", protocol |-> "https:",
     hostname |-> "example.com", absolute |-> FALSE],
    [href |-> "./common.json", protocol |-> "", hostname |-> "", absolute |-> FALSE],
    [href |-> "/schemas/common.json", protocol |-> "", hostname |-> "", absolute |-> TRUE] }

\* What the environment can answer for an address.  Only an http(s) URL can
\* be requested: the global fetch rejects any other address.  Only a
\* custom-scheme address names a file of the package tree.
NetFor(address) ==
    IF address.protocol = "https:" THEN NetOutcomes ELSE {NetReject}
PackageFor(address) ==
    IF address.protocol = "ng-cli:" THEN FileStates ELSE {Missing}

URLparse(address) == [protocol |-> address.protocol, hostname |-> address.hostname]
isAbsolute(address) == address.absolute

----------------------------------------------------------------------------
(* FetchingJSONSchemaStore.fetch *)

\* The value of the local variable `content`.
Null == [kind |-> "null", text |-> InvalidText]
StringContent(t) == [kind |-> "string", text |-> t]
\* A pending promise; text is what it would resolve to, which the holder of
\* the promise cannot see.
PromiseContent(t) == [kind |-> "promise", text |-> t]

\* String(content) as JSON.parse sees it: a promise reads "[object Promise]".
ToJSONText(c) == IF c.kind = "string" THEN c.text ELSE InvalidText

Step(name, c) == [step |-> name, found |-> c # Null]

EmptyObject == [hasProps |-> FALSE, props |-> <<>>]

\* FetchFirst with a failed read of the package file treated as no content.
FetchFirst_CustomFallsBack(address, net, pkgFile) ==
    LET url == URLparse(address)
    IN  IF url.protocol = "ng-cli:"
        THEN IF pkgFile.kind = "file"
             THEN [threw |-> FALSE, content |-> StringContent(Trim(pkgFile.text)),
                   steps |-> <<Step("custom", StringContent(Trim(pkgFile.text)))>>]
             ELSE [threw |-> FALSE, content |-> Null, steps |-> <<Step("custom", Null)>>]
        ELSE IF url.hostname # ""
        THEN LET c == IF net.outcome = "reject" THEN Null ELSE PromiseContent(net.body)
             IN  [threw |-> FALSE, content |-> c, steps |-> <<Step("network", c)>>]
        ELSE [threw |-> FALSE, content |-> Null, steps |-> <<>>]

\* Lines 58-68: the custom scheme, else the network.
FetchFirst(address, net, pkgFile) ==
    LET url == URLparse(address)
    IN  IF url.protocol = "ng-cli:"
        THEN IF pkgFile.kind = "file"
             THEN [threw |-> FALSE, content |-> StringContent(Trim(pkgFile.text)),
                   steps |-> <<Step("custom", StringContent(Trim(pkgFile.text)))>>]
             ELSE [threw |-> TRUE, content |-> Null, steps |-> <<Step("custom", Null)>>]
        ELSE IF url.hostname # ""
        THEN LET c == IF net.outcome = "reject" THEN Null ELSE PromiseContent(net.body)
             IN  [threw |-> FALSE, content |-> c, steps |-> <<Step("network", c)>>]
        ELSE [threw |-> FALSE, content |-> Null, steps |-> <<>>]

\* Lines 70-77: relative to the directory of inPath.
FetchRelative(s, address, relFile) ==
    IF s.threw \/ s.content # Null \/ isAbsolute(address) THEN s
    ELSE IF ~existsSync(relFile)
    THEN [s EXCEPT !.steps = Append(@, Step("relative", Null))]
    ELSE IF relFile.kind = "file"
    THEN [s EXCEPT !.content = StringContent(relFile.text),
                   !.steps = Append(@, Step("relative", StringContent(relFile.text)))]
    ELSE [s EXCEPT !.threw = TRUE, !.steps = Append(@, Step("relative", Null))]

\* FetchLiteral without the test `content === null`.
FetchLiteral_Overrides(s, litFile) ==
    IF s.threw THEN s
    ELSE IF ~existsSync(litFile)
    THEN [s EXCEPT !.steps = Append(@, Step("literal", Null))]
    ELSE IF litFile.kind = "file"
    THEN [s EXCEPT !.content = StringContent(Trim(litFile.text)),
                   !.steps = Append(@, Step("literal", StringContent(Trim(litFile.text))))]
    ELSE [s EXCEPT !.threw = TRUE, !.steps = Append(@, Step("literal", Null))]

\* Lines 79-81: the address as a path.
FetchLiteral(s, litFile) ==
    IF s.threw \/ s.content # Null THEN s
    ELSE IF ~existsSync(litFile)
    THEN [s EXCEPT !.steps = Append(@, Step("literal", Null))]
    ELSE IF litFile.kind = "file"
    THEN [s EXCEPT !.content = StringContent(Trim(litFile.text)),
                   !.steps = Append(@, Step("literal", StringContent(Trim(litFile.text))))]
    ELSE [s EXCEPT !.threw = TRUE, !.steps = Append(@, Step("literal", Null))]

\* Lines 83-89: absence, or pre-processing and parsing.
FetchReturn(s) ==
    IF s.threw
    THEN [outcome |-> "threw", preCount |-> 0, value |-> EmptyObject]
    ELSE IF s.content = Null
    THEN [outcome |-> "absent", preCount |-> 0, value |-> EmptyObject]
    ELSE LET pre == appendDeprecatedDescription(ToJSONText(s.content))
         IN  IF pre.threw
             THEN [outcome |-> "threw", preCount |-> 1, value |-> EmptyObject]
             ELSE [outcome |-> "schema", preCount |-> 1, value |-> JSONparse(pre.text)]

\* Lines 54-90.  The inputs of the call are kept beside what it did.
fetch(address, net, pkgFile, relFile, litFile) ==
    LET s == FetchLiteral(FetchRelative(FetchFirst(address, net, pkgFile), address, relFile),
                          litFile)
        r == FetchReturn(s)
    IN  [address |-> address, net |-> net, pkg |-> pkgFile, rel |-> relFile, lit |-> litFile,
         steps |-> s.steps, content |-> s.content,
         outcome |-> r.outcome, preCount |-> r.preCount, value |-> r.value]

NoCall ==
    [address |-> CHOOSE a \in Addresses : a.absolute, net |-> NetReject,
     pkg |-> Missing, rel |-> Missing, lit |-> Missing,
     steps |-> <<>>, content |-> Null,
     outcome |-> "none", preCount |-> 0, value |-> EmptyObject]

----------------------------------------------------------------------------
(* One run of the program *)

header == "\n// THIS FILE IS AUTOMATICALLY GENERATED. TO UPDATE THIS FILE YOU NEED TO CHANGE THE\n// CORRESPONDING JSON SCHEMA FILE, THEN RUN devkit-admin build (or bazel build ...).\n\n"
footer == ""

\* Array.prototype.join("\n")
RECURSIVE Join(_)
Join(lines) ==
    IF lines = <<>> THEN ""
    ELSE IF Len(lines) = 1 THEN lines[1]
    ELSE lines[1] \o "\n" \o Join(Tail(lines))

\* What quicktype may render.
Renderings == { <<>>, <<"export type Schema = {", "    a?: string;", "};">> }

\* The output file before the run.
OldFile == [opens |-> 0, writes |-> 0, data |-> "previous content"]

\* How fs.writeFileSync ends: written; open refused; opened (truncated) and
\* the write refused.
WriteOutcomes == {"ok", "open-fails", "write-fails"}

Init ==
    /\ pc = "entry"
    /\ argc \in 0..MaxArgs
    /\ outPath \in (IF argc >= 2 THEN {"-", "out.ts"} ELSE {""})
    /\ exitCode = {}
    /\ stdout = <<>>
    /\ stderr = <<>>
    /\ inputRead = FALSE
    /\ source = InvalidText
    /\ nfetch = 0
    /\ call = NoCall
    /\ content = ""
    /\ err = "none"
    /\ outFile = OldFile
    /\ schema = InvalidText
    /\ result = [threw |-> FALSE, text |-> InvalidText]
    /\ ppc = "idle"

\* EntryPoint with the upper limit of the argument check left out.
EntryPoint_NoUpperLimit ==
    /\ pc = "entry"
    /\ IF argc < 2
       THEN /\ stderr' = Append(stderr, "Must include 2 or 3 arguments.")
            /\ exitCode' = {1}
            /\ pc' = "exited"
       ELSE /\ pc' = "main"
            /\ UNCHANGED <<stderr, exitCode>>
    /\ UNCHANGED <<argc, outPath, stdout, inputRead, source, nfetch, call, content,
                   err, outFile, preVars>>

\* Lines 160-168: the argument check, then the call of main.
EntryPoint ==
    /\ pc = "entry"
    /\ IF argc < 2 \/ argc > 3
       THEN /\ stderr' = Append(stderr, "Must include 2 or 3 arguments.")
            /\ exitCode' = {1}
            /\ pc' = "exited"
       ELSE /\ pc' = "main"
            /\ UNCHANGED <<stderr, exitCode>>
    /\ UNCHANGED <<argc, outPath, stdout, inputRead, source, nfetch, call, content,
                   err, outFile, preVars>>

\* GenerateStart with the output file opened for writing before generation.
GenerateStart_OpensOutput ==
    /\ pc = "main"
    /\ inputRead' = TRUE
    /\ outFile' = IF outPath = "-" THEN outFile
                  ELSE [opens |-> outFile.opens + 1, writes |-> outFile.writes, data |-> ""]
    /\ \E f \in FileStates :
        IF f.kind # "file"
        THEN /\ err' = "read error"
             /\ pc' = "rejected"
             /\ UNCHANGED source
        ELSE LET pre == appendDeprecatedDescription(f.text)
             IN  IF pre.threw
                 THEN /\ err' = "SyntaxError"
                      /\ pc' = "rejected"
                      /\ UNCHANGED source
                 ELSE /\ source' = pre.text
                      /\ pc' = "quicktype"
                      /\ UNCHANGED err
    /\ UNCHANGED <<argc, outPath, exitCode, stdout, stderr, nfetch, call, content,
                   preVars>>

\* Lines 98-99 and 114-120: main calls generate, which reads inPath,
\* pre-processes it and registers the source with its schema store.
GenerateStart ==
    /\ pc = "main"
    /\ inputRead' = TRUE
    /\ \E f \in FileStates :
        IF f.kind # "file"
        THEN /\ err' = "read error"
             /\ pc' = "rejected"
             /\ UNCHANGED source
        ELSE LET pre == appendDeprecatedDescription(f.text)
             IN  IF pre.threw
                 THEN /\ err' = "SyntaxError"
                      /\ pc' = "rejected"
                      /\ UNCHANGED source
                 ELSE /\ source' = pre.text
                      /\ pc' = "quicktype"
                      /\ UNCHANGED err
    /\ UNCHANGED <<argc, outPath, exitCode, stdout, stderr, nfetch, call, content,
                   outFile, preVars>>

\* Lines 119 and 54-90: quicktype meets a reference and calls fetch on the
\* store.  A reference whose resolution raises or is absent ends generation
\* with an error.
Resolve ==
    /\ pc = "quicktype"
    /\ nfetch < MaxFetches
    /\ nfetch' = nfetch + 1
    /\ \E address \in Addresses, relFile \in FileStates, litFile \in FileStates :
       \E net \in NetFor(address), pkgFile \in PackageFor(address) :
        /\ call' = fetch(address, net, pkgFile, relFile, litFile)
        /\ IF call'.outcome = "threw"
           THEN err' = "resolver error" /\ pc' = "rejected"
           ELSE IF call'.outcome = "absent"
           THEN err' = "unresolved reference" /\ pc' = "rejected"
           ELSE UNCHANGED <<err, pc>>
    /\ UNCHANGED <<argc, outPath, exitCode, stdout, stderr, inputRead, source, content,
                   outFile, preVars>>

\* Lines 124-134: quicktype rejects for a reason of its own.
QuicktypeFails ==
    /\ pc = "quicktype"
    /\ err' = "generator error"
    /\ pc' = "rejected"
    /\ UNCHANGED <<argc, outPath, exitCode, stdout, stderr, inputRead, source, nfetch,
                   call, content, outFile, preVars>>

\* Lines 124-136: quicktype resolves; generate returns the wrapped lines.
GenerateReturn ==
    /\ pc = "quicktype"
    /\ \E lines \in Renderings : content' = header \o Join(lines) \o footer
    /\ pc' = "generated"
    /\ UNCHANGED <<argc, outPath, exitCode, stdout, stderr, inputRead, source, nfetch,
                   call, err, outFile, preVars>>

\* MainOutput without the test of the "-" destination.
MainOutput_NoSentinel ==
    /\ pc = "generated"
    /\ \E w \in WriteOutcomes :
        \/ /\ w = "ok"
           /\ outFile' = [opens |-> outFile.opens + 1,
                          writes |-> outFile.writes + 1, data |-> content]
           /\ pc' = "resolved"
           /\ UNCHANGED err
        \/ /\ w = "open-fails"
           /\ err' = "write error"
           /\ pc' = "rejected"
           /\ UNCHANGED outFile
        \/ /\ w = "write-fails"
           /\ outFile' = [opens |-> outFile.opens + 1,
                          writes |-> outFile.writes, data |-> ""]
           /\ err' = "write error"
           /\ pc' = "rejected"
    /\ UNCHANGED <<stdout, exitCode>>
    /\ UNCHANGED <<argc, outPath, stderr, inputRead, source, nfetch, call, content,
                   preVars>>

\* Lines 101-108: main after generate has returned.
MainOutput ==
    /\ pc = "generated"
    /\ IF outPath = "-"
       THEN /\ stdout' = Append(stdout, content)
            /\ exitCode' = {0}
            /\ pc' = "exited"
            /\ UNCHANGED <<outFile, err>>
       ELSE /\ \E w \in WriteOutcomes :
                \/ /\ w = "ok"
                   /\ outFile' = [opens |-> outFile.opens + 1,
                                  writes |-> outFile.writes + 1, data |-> content]
                   /\ pc' = "resolved"
                   /\ UNCHANGED err
                \/ /\ w = "open-fails"
                   /\ err' = "write error"
                   /\ pc' = "rejected"
                   /\ UNCHANGED outFile
                \/ /\ w = "write-fails"
                   /\ outFile' = [opens |-> outFile.opens + 1,
                                  writes |-> outFile.writes, data |-> ""]
                   /\ err' = "write error"
                   /\ pc' = "rejected"
            /\ UNCHANGED <<stdout, exitCode>>
    /\ UNCHANGED <<argc, outPath, stderr, inputRead, source, nfetch, call, content,
                   preVars>>

\* Line 169: .then(() => process.exit(0))
ThenExit ==
    /\ pc = "resolved"
    /\ exitCode' = {0}
    /\ pc' = "exited"
    /\ UNCHANGED <<argc, outPath, stdout, stderr, inputRead, source, nfetch, call,
                   content, err, outFile, preVars>>

\* CatchExit with the status of the argument error.
CatchExit_Status1 ==
    /\ pc = "rejected"
    /\ stderr' = stderr \o <<"An error happened:", err>>
    /\ exitCode' = {1}
    /\ pc' = "exited"
    /\ UNCHANGED <<argc, outPath, stdout, inputRead, source, nfetch, call, content,
                   err, outFile, preVars>>

\* Lines 170-174: .catch((err) => ...)
CatchExit ==
    /\ pc = "rejected"
    /\ stderr' = stderr \o <<"An error happened:", err>>
    /\ exitCode' = {127}
    /\ pc' = "exited"
    /\ UNCHANGED <<argc, outPath, stdout, inputRead, source, nfetch, call, content,
                   err, outFile, preVars>>

Next ==
    \/ EntryPoint
    \/ GenerateStart
    \/ Resolve
    \/ QuicktypeFails
    \/ GenerateReturn
    \/ MainOutput
    \/ ThenExit
    \/ CatchExit

Spec == Init /\ [][Next]_vars

----------------------------------------------------------------------------
(* The pre-processor on its own *)

\* Every schema text with at most MaxMembers members, and one invalid text.
Texts ==
    {InvalidText} \cup
    {Text(TRUE, p, h, ms) : p \in BOOLEAN, h \in {TRUE},
                            ms \in SeqsUpTo(Members, MaxMembers)} \cup
    {Text(TRUE, p, FALSE, <<>>) : p \in BOOLEAN}

PreInit ==
    /\ pc = "entry"
    /\ argc = 2
    /\ outPath = "-"
    /\ exitCode = {}
    /\ stdout = <<>>
    /\ stderr = <<>>
    /\ inputRead = FALSE
    /\ source = InvalidText
    /\ nfetch = 0
    /\ call = NoCall
    /\ content = ""
    /\ err = "none"
    /\ outFile = OldFile
    /\ schema \in Texts
    /\ result = [threw |-> FALSE, text |-> InvalidText]
    /\ ppc = "input"

\* Lines 143-158 applied to the text drawn.
Preprocess ==
    /\ ppc = "input"
    /\ result' = appendDeprecatedDescription(schema)
    /\ ppc' = "done"
    /\ UNCHANGED <<schema, mainVars>>

PreNext == Preprocess

SpecPre == PreInit /\ [][PreNext]_vars

----------------------------------------------------------------------------
(* Properties of a run (Spec) *)

ArgsAccepted == argc >= 2 /\ argc <= 3

\* The errors that end a run before main reaches the write of the output.
EarlyErrors ==
    {"read error", "SyntaxError", "resolver error", "unresolved reference",
     "generator error"}

\* C1: the output file changes only in a step taken after generate() has
\* returned, with a file destination, and then for the first and only time; a
\* run that failed while reading, pre-processing, resolving or generating has
\* left the file as it was.
NoPartialOutput ==
    [][ /\ (outFile' # outFile) =>
            (pc = "generated" /\ outPath # "-" /\ err = "none" /\ outFile = OldFile)
        /\ (err' \in EarlyErrors) => (outFile' = OldFile)
      ]_vars

\* C1 witness: a run with a file destination has written the generated text.
NoPartialOutput_Witness ==
    /\ pc = "exited"
    /\ outPath = "out.ts"
    /\ outFile = [opens |-> 1, writes |-> 1, data |-> content]
    /\ exitCode = {0}

IsNetworkAddress(a) == a.protocol # "ng-cli:" /\ a.hostname # ""

Attempted(name) == \E i \in DOMAIN call.steps : call.steps[i].step = name

\* C2: when the request is rejected or the body cannot be read, the resolver
\* goes on to the relative and the literal path and, when they name nothing,
\* returns absence.
NetworkFailureDowngraded ==
    (/\ call.outcome # "none"
     /\ IsNetworkAddress(call.address)
     /\ call.net.outcome \in {"reject", "badbody"})
    => /\ ~isAbsolute(call.address) => Attempted("relative")
       /\ call.rel = Missing => Attempted("literal")
       /\ (call.rel = Missing /\ call.lit = Missing) => call.outcome = "absent"

\* C3: a custom-scheme reference whose package file is missing makes the
\* resolver raise after the first step alone; the run is rejected, exits with
\* 127 and has written neither the output file nor standard output.
CustomSchemeMissingIsFatal ==
    (/\ call.outcome # "none"
     /\ call.address.protocol = "ng-cli:"
     /\ call.pkg = Missing)
    => /\ call.outcome = "threw"
       /\ call.steps = <<Step("custom", Null)>>
       /\ call.preCount = 0
       /\ pc \in {"rejected", "exited"}
       /\ err = "resolver error"
       /\ pc = "exited" => exitCode = {127}
       /\ outFile = OldFile
       /\ stdout = <<>>

\* C3 witness: such a run has exited.
CustomSchemeMissingIsFatal_Witness ==
    /\ call.outcome = "threw"
    /\ call.address.protocol = "ng-cli:"
    /\ call.pkg = Missing
    /\ call.rel # Missing
    /\ call.lit # Missing
    /\ pc = "exited"
    /\ exitCode = {127}

Rank(name) ==
    CASE name = "custom" -> 1
      [] name = "network" -> 2
      [] name = "relative" -> 3
      [] name = "literal" -> 4

\* The text a step reads, from the inputs of the call.
StepText(name) ==
    CASE name = "custom" -> Trim(call.pkg.text)
      [] name = "network" -> call.net.body
      [] name = "relative" -> call.rel.text
      [] name = "literal" -> Trim(call.lit.text)

RetrievedContentPreprocessed ==
    call.outcome # "none" =>
        \A i \in DOMAIN call.steps :
            LET name == call.steps[i].step
                text == StepText(name)
            IN  (/\ call.steps[i].found
                 /\ name = "network" => call.net.outcome = "ok"
                 /\ text.valid)
                => /\ call.content = StringContent(text)
                   /\ call.outcome = "schema"
                   /\ call.preCount = 1
                   /\ call.value = JSONparse(appendDeprecatedDescription(text).text)

\* C6: with an argument count other than 2 or 3 the run does nothing but
\* print the argument error and exit with status 1.
BadArgumentCount ==
    ~ArgsAccepted =>
        /\ pc \in {"entry", "exited"}
        /\ ~inputRead
        /\ nfetch = 0
        /\ call = NoCall
        /\ content = ""
        /\ outFile = OldFile
        /\ stdout = <<>>
        /\ pc = "exited" => /\ exitCode = {1}
                            /\ stderr = <<"Must include 2 or 3 arguments.">>

\* C6 witness: a run with four arguments has exited with status 1.
BadArgumentCount_Witness ==
    /\ argc = 4
    /\ pc = "exited"
    /\ exitCode = {1}
    /\ stderr = <<"Must include 2 or 3 arguments.">>

\* C7: with an accepted argument count and the destination "-" the output file is never touched, main never
\* returns to its caller, and a run that generated its text has printed it,
\* and nothing else, to standard output and exited with status 0.
StdoutSentinel ==
    (ArgsAccepted /\ outPath = "-") =>
        /\ outFile = OldFile
        /\ pc # "resolved"
        /\ err # "write error"
        /\ (pc = "exited" /\ err = "none") => (exitCode = {0} /\ stdout = <<content>>)
        /\ pc # "exited" => stdout = <<>>

\* C7 witness: the generated text is on standard output and the run is over.
StdoutSentinel_Witness ==
    /\ outPath = "-"
    /\ pc = "exited"
    /\ exitCode = {0}
    /\ stdout = <<content>>
    /\ content # ""
    /\ nfetch > 0

\* C8: a run with an accepted argument count that met an error has printed
\* it and exited with 127; one that exited with 0 has printed the generated
\* text or written it to the output file; there is no other status.
ExitStatus ==
    ArgsAccepted =>
        /\ err # "none" => pc \in {"rejected", "exited"}
        /\ pc = "rejected" => err # "none"
        /\ pc = "exited" =>
            /\ exitCode \in {{0}, {127}}
            /\ err # "none" => /\ exitCode = {127}
                               /\ stderr = <<"An error happened:", err>>
            /\ exitCode = {0} =>
                   \/ outPath = "-" /\ stdout = <<content>>
                   \/ outPath # "-" /\ outFile = [opens |-> 1, writes |-> 1, data |-> content]

\* C8 witness: the write of the output file failed and the run exited with 127.
ExitStatus_Witness ==
    /\ ArgsAccepted
    /\ pc = "exited"
    /\ err = "write error"
    /\ exitCode = {127}
    /\ stderr = <<"An error happened:", "write error">>

----------------------------------------------------------------------------
(* Properties of the pre-processor (SpecPre) *)

Before == JSONparse(schema).props
After == JSONparse(result.text).props

PriorDescription(e) == IF e.description = Undef THEN "" ELSE e.description[2]

\* C9: an entry whose x-deprecated is true (or another non-empty value that is
\* not text) gets its prior description followed by "\n@deprecated"; with no
\* prior description that is exactly "\n@deprecated"; an entry whose
\* x-deprecated is "use X instead" gets its prior description followed by
\* "\n@deprecated use X instead".
DeprecatedAppended ==
    (ppc = "done" /\ ~result.threw) =>
        \A k \in Names(Before) :
            LET e == Lookup(Before, k)
                r == Lookup(After, k)
            IN  /\ e.xdep \in {JTrue, JNum1} =>
                       r.description = Str(PriorDescription(e) \o "\n@deprecated")
                /\ (e.xdep = JTrue /\ e.description = Undef) =>
                       r.description = Str("\n@deprecated")
                /\ e.xdep = Str("use X instead") =>
                       r.description =
                           Str(PriorDescription(e) \o "\n@deprecated use X instead")
                /\ (e.xdep = Str("use X instead") /\ e.description = Str("Old text")) =>
                       r.description = Str("Old text\n@deprecated use X instead")

\* C9 witness: both cases of the claim in one document.
DeprecatedAppended_Witness ==
    /\ ppc = "done"
    /\ ~result.threw
    /\ Lookup(Before, "a") = Entry(Undef, JTrue)
    /\ Lookup(After, "a") = Entry(Str("\n@deprecated"), JTrue)
    /\ Lookup(Before, "b") = Entry(Str("Old text"), Str("use X instead"))
    /\ Lookup(After, "b") =
           Entry(Str("Old text\n@deprecated use X instead"), Str("use X instead"))

\* C10: the pre-processor keeps the names and their order, never changes an
\* x-deprecated value, and returns unchanged every entry whose x-deprecated
\* is absent, false or the empty string.
UntouchedEntries ==
    (ppc = "done" /\ ~result.threw) =>
        /\ Len(After) = Len(Before)
        /\ \A i \in DOMAIN Before : After[i][1] = Before[i][1]
        /\ \A k \in Names(Before) :
            LET e == Lookup(Before, k)
                r == Lookup(After, k)
            IN  /\ r.xdep = e.xdep
                /\ e.xdep \in {Undef, JFalse, Str("")} => r = e

\* C10 witness: a deprecated entry beside one without description whose
\* x-deprecated is false.
UntouchedEntries_Witness ==
    /\ ppc = "done"
    /\ ~result.threw
    /\ Before = <<<<"b", Entry(Str("Old text"), JTrue)>>, <<"a", Entry(Undef, JFalse)>>>>
    /\ After = <<<<"b", Entry(Str("Old text\n@deprecated"), JTrue)>>,
                 <<"a", Entry(Undef, JFalse)>>>>

====
